---- MODULE Spec2Model ----
(***************************************************************************)
(* Order processing with goroutines and sync.WaitGroup                     *)
(* (02-goroutines-and-waitgroups/main.go).                                 *)
(*                                                                         *)
(* The coordinator is the main goroutine.  It runs the three barrier based *)
(* functions of main one after another: goroutinesWithWaitGroup,           *)
(* anonymousGoroutines and goroutineRuntimeInfo.  Every `go` statement     *)
(* creates a task goroutine; the tasks and the coordinator interleave      *)
(* freely.  A task is identified by the function that launched it and the  *)
(* number of the `go` statement (loop iteration) that created it.          *)
(*                                                                         *)
(* SpecMain and SpecMainClock are the whole of main: sequentialProcessing, *)
(* simpleGoroutine and multipleGoroutines come before the three barrier    *)
(* based functions.  SpecMainClock also runs the main of                   *)
(* 01-sequential-synchronous/main.go, which is the sequential loop alone.  *)
(*                                                                         *)
(* time.Sleep(d) returns at least d after it was called, and a goroutine   *)
(* may be scheduled arbitrarily late, so sleeps may end in any order.      *)
(* Spec abstracts the durations: its clock stands still and a sleep may    *)
(* return at any step.  SpecClock is the logical clock in seconds on which *)
(* every step other than a sleep takes no time and a sleep of d takes d.   *)
(***************************************************************************)
EXTENDS Integers, Sequences, FiniteSets, TLC

VARIABLES
    orders,      \* the `orders` slice the two batch loops range over
    perIter,     \* TRUE: the build gives each loop iteration its own `order`
                 \* variable (Go >= 1.22); FALSE: one variable per loop
    cpc,         \* position of the main goroutine: [fn, at]
    i,           \* number of loop iterations (go statements) begun in cpc.fn
    order,       \* the loop variable `order` of the current batch loop
    wg,          \* counter of each function's sync.WaitGroup
    reg,         \* number of wg.Add(1) calls issued on each WaitGroup
    tpc,         \* position of each task goroutine
    arg,         \* the Order a task received as a parameter at its go statement
    seen,        \* the Order a task handed to processOrder / slept for
    sig,         \* number of wg.Done() calls each task has issued
    now,         \* the logical clock
    sleepFrom,   \* clock value at which a task called time.Sleep
    wake,        \* earliest clock value at which a task's time.Sleep returns
    startTime,   \* startTime := time.Now() of each function
    since,       \* time.Since(startTime) printed by each function (-1: not yet)
    cwake,       \* earliest clock value at which the main goroutine's own
                 \* time.Sleep returns
    log          \* what processOrder printed when the main goroutine called
                 \* it: <<line, order ID, clock value>>

vars == <<orders, perIter, cpc, i, order, wg, reg, tpc, arg, seen, sig,
          now, sleepFrom, wake, startTime, since, cwake, log>>

----------------------------------------------------------------------------
(* Bounds *)

\* Largest batch the batch loops are run on.
MaxBatch == 5

\* Largest batch the whole of main is run on without a clock.
MaxMainBatch == 2

----------------------------------------------------------------------------
(* Data *)

NoOrder == [ID |-> 0, PrepTime |-> 0]

\* The literal order list of goroutinesWithWaitGroup and goroutineRuntimeInfo.
Orders ==
    << [ID |-> 1, PrepTime |-> 2],
       [ID |-> 2, PrepTime |-> 3],
       [ID |-> 3, PrepTime |-> 1],
       [ID |-> 4, PrepTime |-> 4],
       [ID |-> 5, PrepTime |-> 2] >>

\* The k-th order of a batch: the literal list, continued with fresh ids and
\* the same preparation times when a batch is longer than the list.
OrderAt(k) ==
    IF k <= Len(Orders) THEN Orders[k]
    ELSE [ID |-> k, PrepTime |-> Orders[((k - 1) % Len(Orders)) + 1].PrepTime]

\* The batches the loops are checked on: every length from the empty batch up.
Batches == { [k \in 1..n |-> OrderAt(k)] : n \in 0..MaxBatch }
MainBatches == { [k \in 1..n |-> OrderAt(k)] : n \in 0..MaxMainBatch }

\* rushOrder and vipOrder of anonymousGoroutines.
RushOrder == [ID |-> 1, PrepTime |-> 2]
VipOrder == [ID |-> 2, PrepTime |-> 1]
AnonOrders == << RushOrder, VipOrder >>

WG == "goroutinesWithWaitGroup"
Anon == "anonymousGoroutines"
Info == "goroutineRuntimeInfo"
Funcs == {WG, Anon, Info}
LoopFuncs == {WG, Info}

\* The functions that process the orders in the main goroutine itself: the
\* main of 01-sequential-synchronous and sequentialProcessing.
Sequential01 == "01-sequential-synchronous/main"
Sequential == "sequentialProcessing"
SeqFuncs == {Sequential01, Sequential}

\* The functions that launch goroutines and then sleep for a fixed time.
Simple == "simpleGoroutine"
Multiple == "multipleGoroutines"
SleepFuncs == {Simple, Multiple}

AllFuncs == SeqFuncs \cup SleepFuncs \cup Funcs

\* The one order of simpleGoroutine.
SimpleOrders == << [ID |-> 1, PrepTime |-> 2] >>

\* time.Sleep(3 * time.Second) in simpleGoroutine, time.Sleep(5 *
\* time.Second) in multipleGoroutines.
FixedWait(f) == IF f = Simple THEN 3 ELSE 5

\* The orders a function launches one task for, in launch order.
BatchOf(f) ==
    IF f = Anon THEN AnonOrders
    ELSE IF f = Simple THEN SimpleOrders
    ELSE orders

MaxTasks == IF MaxBatch > Len(AnonOrders) THEN MaxBatch ELSE Len(AnonOrders)
Tasks == Funcs \X (1..MaxTasks)
TasksOf(f) == { <<f, k>> : k \in 1..Len(BatchOf(f)) }

\* The goroutines of the functions without a WaitGroup.
StrayTasks == SleepFuncs \X (1..MaxTasks)
AllTasks == Tasks \cup StrayTasks

Max(a, b) == IF a >= b THEN a ELSE b

At(f, at) == [fn |-> f, at |-> at]
Exit == At("main", "exit")
\* The end of the main of 01-sequential-synchronous.
Exit01 == At(Sequential01, "exit")

\* main calls the functions in this order.
NextFunc(f) ==
    CASE f = WG -> At(Anon, "enter")
      [] f = Anon -> At(Info, "enter")
      [] f = Info -> Exit
      [] f = Sequential -> At(Simple, "enter")
      [] f = Simple -> At(Multiple, "enter")
      [] f = Multiple -> At(WG, "enter")
      [] f = Sequential01 -> Exit01

----------------------------------------------------------------------------
(* sync.WaitGroup *)

\* wg.Add(delta)
Add(c, delta) == c + delta

\* Faulty variants of wg.Done(): one that leaves the counter alone and one
\* that signals twice.
DoneMissing(c) == c
DoneTwice(c) == Add(Add(c, -1), -1)

\* wg.Done()
Done(c) == Add(c, -1)

\* Faulty variant of wg.Wait(): it returns whatever the counter is.
WaitNeverBlocks(f) == TRUE

\* Faulty variant of wg.Wait(): it returns only on a WaitGroup nothing was
\* ever added to, so it misses the signals of its tasks.
WaitLosesWakeup(f) == wg[f] = 0 /\ reg[f] = 0

\* wg.Wait() returns when the counter is zero.
WaitReturns(f) == wg[f] = 0

----------------------------------------------------------------------------
(* Initial states *)

\* Nothing has run yet: none of the goroutines T the program can create
\* exists, every counter is zero.
Fresh(T) ==
    /\ perIter \in BOOLEAN
    /\ i = 0
    /\ order = NoOrder
    /\ wg = [f \in Funcs |-> 0]
    /\ reg = [f \in Funcs |-> 0]
    /\ tpc = [t \in T |-> "none"]
    /\ arg = [t \in T |-> NoOrder]
    /\ seen = [t \in T |-> NoOrder]
    /\ sig = [t \in T |-> 0]
    /\ now = 0
    /\ sleepFrom = [t \in T |-> 0]
    /\ wake = [t \in T |-> 0]
    /\ startTime = [f \in AllFuncs |-> 0]
    /\ since = [f \in AllFuncs |-> -1]
    /\ cwake = 0
    /\ log = << >>

\* main is about to call goroutinesWithWaitGroup.
Init ==
    /\ orders \in Batches
    /\ cpc = At(WG, "enter")
    /\ Fresh(Tasks)

\* main of 02-goroutines-and-waitgroups is about to call its first function,
\* sequentialProcessing.
InitMain ==
    /\ orders \in MainBatches
    /\ cpc = At(Sequential, "enter")
    /\ Fresh(AllTasks)

\* Either program starts: the main of 01-sequential-synchronous, or the main
\* of 02-goroutines-and-waitgroups.
InitMainClock ==
    /\ orders \in Batches
    /\ cpc \in {At(Sequential01, "enter"), At(Sequential, "enter")}
    /\ Fresh(AllTasks)

----------------------------------------------------------------------------
(* The coordinator *)

taskVars == <<tpc, arg, seen, sig, sleepFrom, wake>>

\* Function entry: var wg sync.WaitGroup; orders := ...; and, in
\* goroutinesWithWaitGroup, startTime := time.Now().
Enter(f) ==
    /\ cpc = At(f, "enter")
    /\ cpc' = At(f, "range")
    /\ i' = 0
    /\ order' = NoOrder
    /\ startTime' = IF f = WG THEN [startTime EXCEPT ![f] = now] ELSE startTime
    /\ UNCHANGED <<cwake, log, orders, perIter, wg, reg, now, since>>
    /\ UNCHANGED taskVars

\* `for _, order := range orders`: the value `order` holds in iteration k.
\* anonymousGoroutines has no loop and no such variable.
RangeVar(f, k) == IF f \in LoopFuncs THEN orders[k] ELSE NoOrder

\* Faulty variant of the loop head: the iteration begins without wg.Add(1).
LoopAddForgotten(f) ==
    /\ cpc = At(f, "range")
    /\ i < Len(BatchOf(f))
    /\ i' = i + 1
    /\ order' = RangeVar(f, i + 1)
    /\ cpc' = At(f, "go")
    /\ UNCHANGED <<cwake, log, orders, perIter, wg, reg, now, startTime, since>>
    /\ UNCHANGED taskVars

\* Faulty variant of the loop head: wg.Add(1) is issued before the range is
\* tested, so also when no iteration follows.
LoopAddBeforeCheck(f) ==
    /\ cpc = At(f, "range")
    /\ wg' = [wg EXCEPT ![f] = Add(@, 1)]
    /\ reg' = [reg EXCEPT ![f] = @ + 1]
    /\ IF i < Len(BatchOf(f))
         THEN /\ i' = i + 1
              /\ order' = RangeVar(f, i + 1)
              /\ cpc' = At(f, "go")
         ELSE /\ cpc' = At(f, "wait")
              /\ UNCHANGED <<i, order>>
    /\ UNCHANGED <<cwake, log, orders, perIter, now, startTime, since>>
    /\ UNCHANGED taskVars

\* The next iteration begins: `order` takes the next element, then wg.Add(1).
\* (In anonymousGoroutines: the wg.Add(1) before each go statement.)
LoopAdd(f) ==
    /\ cpc = At(f, "range")
    /\ i < Len(BatchOf(f))
    /\ i' = i + 1
    /\ order' = RangeVar(f, i + 1)
    /\ wg' = [wg EXCEPT ![f] = Add(@, 1)]
    /\ reg' = [reg EXCEPT ![f] = @ + 1]
    /\ cpc' = At(f, "go")
    /\ UNCHANGED <<cwake, log, orders, perIter, now, startTime, since>>
    /\ UNCHANGED taskVars

\* The argument a go statement evaluates and hands to the new goroutine:
\* `(order)` in goroutinesWithWaitGroup, `(customerName, vipOrder)` for the
\* second goroutine of anonymousGoroutines, nothing otherwise.
GoArg(f, k) ==
    CASE f = WG -> order
      [] f = Anon -> IF k = 2 THEN VipOrder ELSE NoOrder
      [] f = Info -> NoOrder

\* The go statement: the goroutine exists and may run from now on.
LoopGo(f) ==
    /\ cpc = At(f, "go")
    /\ tpc' = [tpc EXCEPT ![<<f, i>>] = "launched"]
    /\ arg' = [arg EXCEPT ![<<f, i>>] = GoArg(f, i)]
    /\ cpc' = At(f, "range")
    /\ UNCHANGED <<cwake, log, orders, perIter, i, order, wg, reg, seen, sig,
                   now, sleepFrom, wake, startTime, since>>

\* Faulty variant of the end of the loop: the coordinator goes on to
\* wg.Wait() although orders remain.
LoopEndEarly(f) ==
    /\ cpc = At(f, "range")
    /\ cpc' = At(f, "wait")
    /\ UNCHANGED <<cwake, log, orders, perIter, i, order, wg, reg, now, startTime, since>>
    /\ UNCHANGED taskVars

\* The range is exhausted: the coordinator reaches wg.Wait().
LoopEnd(f) ==
    /\ cpc = At(f, "range")
    /\ i = Len(BatchOf(f))
    /\ cpc' = At(f, "wait")
    /\ UNCHANGED <<cwake, log, orders, perIter, i, order, wg, reg, now, startTime, since>>
    /\ UNCHANGED taskVars

\* wg.Wait() returns.
Wait(f) ==
    /\ cpc = At(f, "wait")
    /\ WaitReturns(f)
    /\ cpc' = At(f, "return")
    /\ UNCHANGED <<cwake, log, orders, perIter, i, order, wg, reg, now, startTime, since>>
    /\ UNCHANGED taskVars

\* After the wait: goroutinesWithWaitGroup prints time.Since(startTime); the
\* function returns to main, which calls the next one.
Return(f) ==
    /\ cpc = At(f, "return")
    /\ since' = IF f = WG THEN [since EXCEPT ![f] = now - startTime[f]] ELSE since
    /\ cpc' = NextFunc(f)
    /\ UNCHANGED <<cwake, log, orders, perIter, i, order, wg, reg, now, startTime>>
    /\ UNCHANGED taskVars

----------------------------------------------------------------------------
(* The tasks *)

\* The value of the variable `order` a closure of goroutineRuntimeInfo reads:
\* its own iteration's variable, or the one variable of the whole loop, which
\* the coordinator writes without synchronisation; the read yields the value
\* the variable holds at that step.
LoopVar(k) == IF perIter THEN orders[k] ELSE order

\* Faulty variant: every closure of a batch loop reads the one loop variable
\* instead of its parameter.
TaskOrderAllCaptured(t) == IF t[1] = Anon THEN AnonOrders[t[2]] ELSE order

\* The Order a task hands to processOrder: its parameter `o` in
\* goroutinesWithWaitGroup, rushOrder or the parameter `order` in
\* anonymousGoroutines, the captured loop variable in goroutineRuntimeInfo.
TaskOrder(t) ==
    CASE t[1] = WG -> arg[t]
      [] t[1] = Anon -> IF t[2] = 1 THEN RushOrder ELSE arg[t]
      [] t[1] = Info -> LoopVar(t[2])
      [] t[1] \in SleepFuncs -> arg[t]

\* Faulty variant of the start of a task: the goroutine stores the order it
\* works on in the coordinator's loop variable.
TaskStartWritesLoopVariable(t) ==
    /\ tpc[t] = "launched"
    /\ tpc' = [tpc EXCEPT ![t] = "sleep"]
    /\ seen' = [seen EXCEPT ![t] = TaskOrder(t)]
    /\ order' = TaskOrder(t)
    /\ sleepFrom' = [sleepFrom EXCEPT ![t] = now]
    /\ wake' = [wake EXCEPT ![t] = now + TaskOrder(t).PrepTime]
    /\ UNCHANGED <<cwake, log, orders, perIter, cpc, i, wg, reg, arg, sig,
                   now, startTime, since>>

\* The goroutine runs: defer wg.Done() is registered, processOrder is called
\* with the task's order, prints "Started processing" and calls time.Sleep.
TaskStart(t) ==
    /\ tpc[t] = "launched"
    /\ tpc' = [tpc EXCEPT ![t] = "sleep"]
    /\ seen' = [seen EXCEPT ![t] = TaskOrder(t)]
    /\ sleepFrom' = [sleepFrom EXCEPT ![t] = now]
    /\ wake' = [wake EXCEPT ![t] = now + TaskOrder(t).PrepTime]
    /\ UNCHANGED <<cwake, log, orders, perIter, cpc, i, order, wg, reg, arg, sig,
                   now, startTime, since>>

\* Faulty variant of the end of a task: the goroutine exits without wg.Done().
TaskExitWithoutDone(t) ==
    /\ tpc[t] = "sleep"
    /\ tpc' = [tpc EXCEPT ![t] = "done"]
    /\ UNCHANGED <<cwake, log, orders, perIter, cpc, i, order, wg, reg, arg, seen, sig,
                   now, sleepFrom, wake, startTime, since>>

\* time.Sleep returns, "Ready for pickup" is printed, processOrder and the
\* goroutine's function return and the deferred wg.Done() runs.  Between the
\* end of the sleep and wg.Done() the goroutine touches nothing another
\* goroutine reads, so the steps are taken as one.
TaskDone(t) ==
    /\ tpc[t] = "sleep"
    /\ tpc' = [tpc EXCEPT ![t] = "done"]
    /\ wg' = [wg EXCEPT ![t[1]] = Done(@)]
    /\ sig' = [sig EXCEPT ![t] = @ + 1]
    /\ UNCHANGED <<cwake, log, orders, perIter, cpc, i, order, reg, arg, seen,
                   now, sleepFrom, wake, startTime, since>>

----------------------------------------------------------------------------
(* Sequential processing: sequentialProcessing, and main of 01 *)

\* Function entry: startTime := time.Now(); orders := ...
SeqEnter(f) ==
    /\ cpc = At(f, "enter")
    /\ cpc' = At(f, "range")
    /\ i' = 0
    /\ order' = NoOrder
    /\ startTime' = [startTime EXCEPT ![f] = now]
    /\ UNCHANGED <<orders, perIter, wg, reg, now, since, cwake, log>>
    /\ UNCHANGED taskVars

\* Faulty variant of processOrder: it prints "Started processing" and does
\* not sleep for the preparation time.
SeqCallNoSleep(f) ==
    /\ cpc = At(f, "range")
    /\ i < Len(orders)
    /\ i' = i + 1
    /\ order' = orders[i + 1]
    /\ log' = Append(log, <<"Started", orders[i + 1].ID, now>>)
    /\ cwake' = now
    /\ cpc' = At(f, "sleep")
    /\ UNCHANGED <<orders, perIter, wg, reg, now, startTime, since>>
    /\ UNCHANGED taskVars

\* The next iteration: `order` takes the next element and processOrder(order)
\* is called in the main goroutine; it prints "Started processing" and calls
\* time.Sleep(order.PrepTime).
SeqCall(f) ==
    /\ cpc = At(f, "range")
    /\ i < Len(orders)
    /\ i' = i + 1
    /\ order' = orders[i + 1]
    /\ log' = Append(log, <<"Started", orders[i + 1].ID, now>>)
    /\ cwake' = now + orders[i + 1].PrepTime
    /\ cpc' = At(f, "sleep")
    /\ UNCHANGED <<orders, perIter, wg, reg, now, startTime, since>>
    /\ UNCHANGED taskVars

\* time.Sleep returns; processOrder prints "Ready for pickup" and returns to
\* the loop.
SeqReady(f) ==
    /\ cpc = At(f, "sleep")
    /\ log' = Append(log, <<"Ready", order.ID, now>>)
    /\ cpc' = At(f, "range")
    /\ UNCHANGED <<orders, perIter, i, order, wg, reg, now, startTime, since,
                   cwake>>
    /\ UNCHANGED taskVars

\* The range is exhausted: the function prints time.Since(startTime) and
\* returns.
SeqEnd(f) ==
    /\ cpc = At(f, "range")
    /\ i = Len(orders)
    /\ since' = [since EXCEPT ![f] = now - startTime[f]]
    /\ cpc' = NextFunc(f)
    /\ UNCHANGED <<orders, perIter, i, order, wg, reg, now, startTime,
                   cwake, log>>
    /\ UNCHANGED taskVars

----------------------------------------------------------------------------
(* Goroutines without a WaitGroup: simpleGoroutine and multipleGoroutines *)

\* Function entry: the order or the orders are built; multipleGoroutines
\* takes startTime := time.Now().
FireEnter(f) ==
    /\ cpc = At(f, "enter")
    /\ cpc' = At(f, "range")
    /\ i' = 0
    /\ order' = NoOrder
    /\ startTime' = IF f = Multiple THEN [startTime EXCEPT ![f] = now]
                    ELSE startTime
    /\ UNCHANGED <<orders, perIter, wg, reg, now, since, cwake, log>>
    /\ UNCHANGED taskVars

\* `go processOrder(order)`: the order is evaluated at the go statement and
\* handed to the new goroutine by value.
FireGo(f) ==
    /\ cpc = At(f, "range")
    /\ i < Len(BatchOf(f))
    /\ i' = i + 1
    /\ order' = BatchOf(f)[i + 1]
    /\ tpc' = [tpc EXCEPT ![<<f, i + 1>>] = "launched"]
    /\ arg' = [arg EXCEPT ![<<f, i + 1>>] = BatchOf(f)[i + 1]]
    /\ UNCHANGED <<orders, perIter, cpc, wg, reg, seen, sig, now, sleepFrom,
                   wake, startTime, since, cwake, log>>

\* All goroutines are launched: the main goroutine calls time.Sleep with the
\* function's fixed duration.
FireSleep(f) ==
    /\ cpc = At(f, "range")
    /\ i = Len(BatchOf(f))
    /\ cwake' = now + FixedWait(f)
    /\ cpc' = At(f, "sleep")
    /\ UNCHANGED <<orders, perIter, i, order, wg, reg, now, startTime, since,
                   log>>
    /\ UNCHANGED taskVars

\* The main goroutine's time.Sleep returns; multipleGoroutines prints
\* time.Since(startTime); the function returns to main.
FireWake(f) ==
    /\ cpc = At(f, "sleep")
    /\ since' = IF f = Multiple THEN [since EXCEPT ![f] = now - startTime[f]]
                ELSE since
    /\ cpc' = NextFunc(f)
    /\ UNCHANGED <<orders, perIter, i, order, wg, reg, now, startTime,
                   cwake, log>>
    /\ UNCHANGED taskVars

\* Faulty variant of the end of a goroutine without a WaitGroup: it calls
\* Done on the WaitGroup of the function the main goroutine is in.
StrayDoneSignals(t) ==
    /\ tpc[t] = "sleep"
    /\ tpc' = [tpc EXCEPT ![t] = "done"]
    /\ wg' = IF cpc.fn \in Funcs THEN [wg EXCEPT ![cpc.fn] = Done(@)] ELSE wg
    /\ UNCHANGED <<orders, perIter, cpc, i, order, reg, arg, seen, sig,
                   now, sleepFrom, wake, startTime, since, cwake, log>>

\* time.Sleep returns in a goroutine started by `go processOrder(order)`:
\* "Ready for pickup" is printed and the goroutine ends.
StrayDone(t) ==
    /\ tpc[t] = "sleep"
    /\ tpc' = [tpc EXCEPT ![t] = "done"]
    /\ UNCHANGED <<orders, perIter, cpc, i, order, wg, reg, arg, seen, sig,
                   now, sleepFrom, wake, startTime, since, cwake, log>>

----------------------------------------------------------------------------
(* Specifications *)

Coordinator ==
    \E f \in Funcs :
        \/ Enter(f)
        \/ LoopAdd(f)
        \/ LoopGo(f)
        \/ LoopEnd(f)
        \/ Wait(f)
        \/ Return(f)

Task(t) ==
    \/ TaskStart(t)
    \/ TaskDone(t)

Next ==
    \/ Coordinator
    \/ \E t \in Tasks : Task(t)

\* Any interleaving of the goroutines; sleeps end in any order.
Spec == Init /\ [][Next]_vars

\* The scheduler does not leave every goroutine that can run waiting for
\* ever.  This is weaker than fairness to each goroutine, which the Go
\* scheduler provides, so what holds under it holds under that too.
FairSpec == Spec /\ WF_vars(Next)

\* Some goroutine can take a step that is not the return of a pending sleep.
Runnable ==
    \/ /\ cpc.at # "exit"
       /\ cpc.at = "wait" => WaitReturns(cpc.fn)
       /\ cpc.at # "sleep"
    \/ \E t \in DOMAIN tpc : tpc[t] = "launched"

\* A sleep returns on the logical clock once its deadline has come.
ClockDone(t) ==
    /\ wake[t] <= now
    /\ TaskDone(t)

\* One second passes: no goroutine can run and no pending sleep is over.
Tick ==
    /\ ~Runnable
    /\ cpc.at = "sleep" \/ \E t \in DOMAIN tpc : tpc[t] = "sleep"
    /\ \A t \in DOMAIN tpc : tpc[t] = "sleep" => now < wake[t]
    /\ cpc.at = "sleep" => now < cwake
    /\ now' = now + 1
    /\ UNCHANGED <<cwake, log, orders, perIter, cpc, i, order, wg, reg, startTime, since>>
    /\ UNCHANGED taskVars

NextClock ==
    \/ Coordinator
    \/ \E t \in Tasks : TaskStart(t)
    \/ \E t \in Tasks : ClockDone(t)
    \/ Tick

\* The logical clock on which launching, printing and signalling cost no time.
SpecClock == Init /\ [][NextClock]_vars

\* The steps of the main goroutine in the functions without a WaitGroup,
\* the returns of its own sleeps apart.
MainCoordinator ==
    \/ \E f \in SeqFuncs :
          \/ SeqEnter(f)
          \/ SeqCall(f)
          \/ SeqEnd(f)
    \/ \E f \in SleepFuncs :
          \/ FireEnter(f)
          \/ FireGo(f)
          \/ FireSleep(f)

NextMain ==
    \/ MainCoordinator
    \/ \E f \in SeqFuncs : SeqReady(f)
    \/ \E f \in SleepFuncs : FireWake(f)
    \/ Coordinator
    \/ \E t \in AllTasks : TaskStart(t)
    \/ \E t \in Tasks : TaskDone(t)
    \/ \E t \in StrayTasks : StrayDone(t)

\* The whole main of 02-goroutines-and-waitgroups, any interleaving of the
\* goroutines; every sleep, the main goroutine's included, returns at some
\* step after its call (time.Sleep pauses for at least its duration, and a
\* goroutine may be scheduled arbitrarily late).
SpecMain == InitMain /\ [][NextMain]_vars

\* The returns of the sleeps on the logical clock.
ClockSeqReady(f) ==
    /\ cwake <= now
    /\ SeqReady(f)

ClockFireWake(f) ==
    /\ cwake <= now
    /\ FireWake(f)

ClockStrayDone(t) ==
    /\ wake[t] <= now
    /\ StrayDone(t)

NextMainClock ==
    \/ MainCoordinator
    \/ \E f \in SeqFuncs : ClockSeqReady(f)
    \/ \E f \in SleepFuncs : ClockFireWake(f)
    \/ Coordinator
    \/ \E t \in AllTasks : TaskStart(t)
    \/ \E t \in Tasks : ClockDone(t)
    \/ \E t \in StrayTasks : ClockStrayDone(t)
    \/ Tick

\* Either program on the logical clock.
SpecMainClock == InitMainClock /\ [][NextMainClock]_vars

----------------------------------------------------------------------------
(* Properties *)

\* The place of a function in the order in which main calls them; the
\* barrier based functions are 1, 2, 3 and the end of main is 4.
FuncRank(fn) ==
    CASE fn = WG -> 1
      [] fn = Anon -> 2
      [] fn = Info -> 3
      [] fn \in SeqFuncs -> -2
      [] fn = Simple -> -1
      [] fn = Multiple -> 0
      [] OTHER -> 4

\* The coordinator has returned from the wg.Wait() of function f.
Waited(f) == cpc = At(f, "return") \/ FuncRank(cpc.fn) > FuncRank(f)

\* The coordinator is blocked in the wg.Wait() of function f.
Blocked(f) == cpc = At(f, "wait") /\ ~WaitReturns(f)

Started(t) == tpc[t] \in {"sleep", "done"}

RECURSIVE SumSig(_, _)
\* Number of wg.Done() calls issued by the first n tasks of function f.
SumSig(f, n) == IF n = 0 THEN 0 ELSE sig[<<f, n>>] + SumSig(f, n - 1)

RECURSIVE MaxPrep(_, _)
\* Longest preparation time among the first n orders of a batch.
MaxPrep(b, n) == IF n = 0 THEN 0 ELSE Max(b[n].PrepTime, MaxPrep(b, n - 1))

Range(q) == { q[k] : k \in DOMAIN q }
\* The multiset of the elements of a sequence.
BagOf(q) == [x \in Range(q) |-> Cardinality({ k \in DOMAIN q : q[k] = x })]

\* The orders the tasks of function f have processed, by task.
Processed(f) == [k \in 1..Len(BatchOf(f)) |-> seen[<<f, k>>]]

\* C1. No premature return: once the coordinator is past wg.Wait() of a
\* function, every task that function launched (one per order of its batch,
\* whatever the batch size) has finished its work and has called wg.Done().
C1_NoPrematureReturn ==
    \A f \in Funcs :
        Waited(f) =>
            \A t \in TasksOf(f) : tpc[t] = "done" /\ sig[t] >= 1

\* The coordinator has just returned from the wait of a full batch of
\* goroutineRuntimeInfo.
C1_Witness ==
    /\ cpc = At(Info, "return")
    /\ Len(orders) = Len(Orders)
    /\ \A t \in TasksOf(Info) : tpc[t] = "done"

\* C2. Correct parameter association: in both batch loops every task that has
\* started processes the order of its own iteration, and once the batch is
\* over the multiset of processed orders equals the multiset of the batch.
C2_ParameterAssociation ==
    \A f \in LoopFuncs :
        /\ \A t \in TasksOf(f) : Started(t) => seen[t] = orders[t[2]]
        /\ Waited(f) => BagOf(Processed(f)) = BagOf(orders)

\* C3. The counter of every WaitGroup is never negative.
C3_PendingNonNegative == \A f \in Funcs : wg[f] >= 0

\* The counter is back at zero in the middle of a batch: the first task has
\* signalled before the next one is registered.
C3_Witness ==
    /\ cpc = At(WG, "range")
    /\ 0 < i /\ i < Len(orders)
    /\ wg[WG] = 0
    /\ sig[<<WG, 1>>] = 1

\* C4. Register before launch: a task that exists, and so a task that has
\* signalled, has been registered; wg.Add(1) is a step of the coordinator
\* and of no task, taken while the task it registers is not yet launched.
C4_RegisterBeforeLaunch ==
    /\ [](\A t \in Tasks : (tpc[t] # "none" \/ sig[t] > 0) => reg[t[1]] >= t[2])
    /\ [][\A f \in Funcs :
            reg'[f] # reg[f] =>
                /\ cpc.fn = f /\ cpc' # cpc
                /\ reg'[f] = reg[f] + 1
                /\ tpc' = tpc /\ sig' = sig
                /\ tpc[<<f, reg'[f]>>] = "none"]_vars
    /\ [][\A t \in Tasks :
            (tpc[t] = "none" /\ tpc'[t] # "none") => reg[t[1]] >= t[2]]_vars

\* The first task of goroutinesWithWaitGroup is registered and not launched.
C4_Witness ==
    /\ reg[WG] = 1
    /\ wg[WG] = 1
    /\ tpc[<<WG, 1>>] = "none"

\* C5. Signal exactly once: a task calls wg.Done() at most once, in the step
\* in which its sleep ends and it exits and never before, and a task that has
\* exited has called it; when the batch is over the number of signals equals
\* the number of registrations.
C5_SignalExactlyOnce ==
    /\ [](\A t \in Tasks :
            /\ sig[t] <= 1
            /\ tpc[t] = "done" => sig[t] = 1
            /\ sig[t] = 1 => tpc[t] = "done")
    /\ [](\A f \in Funcs : Waited(f) => SumSig(f, Len(BatchOf(f))) = reg[f])
    /\ [][\A t \in Tasks :
            sig'[t] # sig[t] =>
                /\ tpc[t] = "sleep" /\ tpc'[t] = "done"
                /\ sig'[t] = sig[t] + 1
                /\ wg'[t[1]] = wg[t[1]] - 1]_vars

\* The program has ended and each of the 5 + 2 + 5 tasks has signalled once.
C5_Witness ==
    /\ cpc = Exit
    /\ Len(orders) = Len(Orders)
    /\ \A f \in Funcs : SumSig(f, Len(BatchOf(f))) = Len(BatchOf(f))

\* C6. Batch termination: under fair scheduling main reaches its end, that is,
\* for every batch size the coordinator reaches each of the three wg.Wait()
\* calls and returns from it; it never waits for ever and never deadlocks.
C6_BatchTermination == <>(cpc = Exit)

\* The coordinator is blocked in the wait while all five tasks are asleep.
C6_Witness ==
    /\ Blocked(WG)
    /\ wg[WG] = Len(Orders)
    /\ \A t \in TasksOf(WG) : tpc[t] = "sleep"

\* C7. Zero-task batch: on an empty batch the loops register and launch
\* nothing, the counter stays zero and wg.Wait() does not block.
C7_ZeroTaskBatch ==
    orders = <<>> =>
        \A f \in LoopFuncs :
            /\ reg[f] = 0
            /\ wg[f] = 0
            /\ \A k \in 1..MaxTasks : tpc[<<f, k>>] = "none"
            /\ ~Blocked(f)

\* goroutinesWithWaitGroup has returned from the wait of an empty batch.
C7_Witness ==
    /\ orders = <<>>
    /\ cpc = At(WG, "return")

\* C8. Idempotent drain: after wg.Wait() has returned the function registers
\* nothing more, the counter is zero and stays zero, and the condition on
\* which wg.Wait() returns holds, so a further wait would not block.
C8_IdempotentDrain ==
    /\ [](\A f \in Funcs : Waited(f) => wg[f] = 0 /\ WaitReturns(f))
    /\ [][\A f \in Funcs :
            Waited(f) => Waited(f)' /\ reg'[f] = reg[f] /\ wg'[f] = 0]_vars

\* The barrier of goroutinesWithWaitGroup is drained while the tasks of
\* goroutineRuntimeInfo are running on theirs.
C8_Witness ==
    /\ Waited(WG)
    /\ reg[WG] = Len(Orders)
    /\ wg[WG] = 0
    /\ cpc.fn = Info
    /\ wg[Info] > 0

\* C10. Concurrency overlaps: on the logical clock every task of the batch
\* of goroutinesWithWaitGroup sleeps from the start of the batch for its own
\* preparation time, all tasks are asleep when the clock first moves, and the
\* time the function prints is the longest preparation time of the batch
\* (4 for the five orders, not their sum 12).
C10_ConcurrencyOverlaps ==
    /\ \A t \in TasksOf(WG) :
          Started(t) =>
              /\ sleepFrom[t] = startTime[WG]
              /\ wake[t] = startTime[WG] + orders[t[2]].PrepTime
    /\ (cpc.fn = WG /\ now > startTime[WG]) =>
          \A t \in TasksOf(WG) : Started(t)
    /\ since[WG] # -1 => since[WG] = MaxPrep(orders, Len(orders))
    /\ (since[WG] # -1 /\ orders = Orders) => since[WG] = 4

\* The five-order batch has returned after 4 seconds and all five sleeps
\* covered the first second.
C10_Witness ==
    /\ orders = Orders
    /\ since[WG] = 4
    /\ \A t \in TasksOf(WG) : sleepFrom[t] = startTime[WG] /\ wake[t] > startTime[WG]

\* Number of tasks of function f: one per order of its batch.
NumTasks(f) == Len(BatchOf(f))

\* Number of wg.Done() calls issued so far on the WaitGroup of function f.
Signals(f) == SumSig(f, NumTasks(f))

\* Number of go statements function f has executed so far.
Launched(f) == Cardinality({ t \in TasksOf(f) : tpc[t] # "none" })

\* C12 as stated: all N registrations come before the first signal, that is,
\* once any task of a batch has signalled, all N tasks are registered.
C12_AllRegistrationsBeforeFirstSignal ==
    \A f \in Funcs : Signals(f) > 0 => reg[f] = NumTasks(f)

\* C12, amended.  Barrier state machine: the counter starts at 0, moves only
\* by +1 with a registration and by -1 with a signal, stays within
\* 0..registrations..N, a task's signal follows its own registration, and
\* when wg.Wait() has returned N registrations and N signals have been issued
\* and the counter is 0.  Signals may come before later registrations.
C12_BarrierStateMachine ==
    /\ [](\A f \in Funcs :
            /\ 0 <= wg[f] /\ wg[f] <= reg[f] /\ reg[f] <= NumTasks(f)
            /\ \A t \in TasksOf(f) : sig[t] > 0 => reg[f] >= t[2]
            /\ cpc = At(f, "enter") => wg[f] = 0 /\ reg[f] = 0
            /\ Waited(f) => reg[f] = NumTasks(f) /\ Signals(f) = NumTasks(f) /\ wg[f] = 0)
    /\ [][\A f \in Funcs :
            wg'[f] # wg[f] =>
                \/ reg'[f] = reg[f] + 1 /\ wg'[f] = wg[f] + 1 /\ sig' = sig
                \/ reg'[f] = reg[f] /\ wg'[f] = wg[f] - 1
                     /\ Signals(f)' = Signals(f) + 1]_vars

\* The first task of goroutineRuntimeInfo has signalled while the second is
\* registered and not yet launched and the others are still to be registered.
C12_Witness ==
    /\ cpc = At(Info, "go")
    /\ i = 2 /\ i < Len(orders)
    /\ sig[<<Info, 1>>] = 1
    /\ wg[Info] = 1

\* C13.  wg.Wait() is called by the coordinator alone and only after every
\* wg.Add(1) of its batch: while the coordinator is at or past the wait all
\* N tasks are registered and launched; every registration is a step of the
\* coordinator inside the loop, before the wait; and the return of the wait
\* is a step of the coordinator that leaves every task where it is.
C13_AwaitAfterAllRegistrations ==
    /\ [](\A f \in Funcs :
            (cpc = At(f, "wait") \/ Waited(f)) =>
                reg[f] = NumTasks(f) /\ Launched(f) = NumTasks(f))
    /\ [][\A f \in Funcs :
            reg'[f] # reg[f] =>
                /\ cpc = At(f, "range") /\ cpc' = At(f, "go")
                /\ reg[f] < NumTasks(f)
                /\ UNCHANGED taskVars]_vars
    /\ [][\A f \in Funcs :
            (cpc = At(f, "wait") /\ cpc' # cpc) =>
                /\ cpc' = At(f, "return")
                /\ reg[f] = NumTasks(f) /\ wg[f] = 0
                /\ UNCHANGED <<wg, reg>> /\ UNCHANGED taskVars]_vars

\* The coordinator of goroutinesWithWaitGroup is in wg.Wait() with all of
\* two or more tasks registered and some of them still pending.
C13_Witness ==
    /\ cpc = At(WG, "wait")
    /\ NumTasks(WG) >= 2
    /\ reg[WG] = NumTasks(WG)
    /\ wg[WG] > 0

\* C14.  No lost wake-up: whenever the coordinator is at wg.Wait(), the wait
\* can return if and only if the counter is 0, which is the case if and only
\* if every task of the batch has signalled, whether the signals came before
\* the coordinator reached the wait or while it was blocked; a counter that
\* is 0 at the wait stays 0; and the coordinator leaves the wait only in a
\* state where the counter is 0.
C14_NoLostWakeup ==
    /\ [](\A f \in Funcs :
            cpc = At(f, "wait") =>
                /\ (ENABLED Wait(f)) <=> wg[f] = 0
                /\ wg[f] = 0 <=> \A t \in TasksOf(f) : sig[t] = 1)
    /\ [][\A f \in Funcs :
            (cpc = At(f, "wait") /\ wg[f] = 0 /\ cpc' = cpc) => wg'[f] = 0]_vars
    /\ [][\A f \in Funcs :
            (cpc = At(f, "wait") /\ cpc' # cpc) =>
                wg[f] = 0 /\ cpc' = At(f, "return")]_vars

\* The coordinator of goroutinesWithWaitGroup is at wg.Wait() and every one
\* of two or more tasks has signalled: the wait is to return.
C14_Witness ==
    /\ cpc = At(WG, "wait")
    /\ NumTasks(WG) >= 2
    /\ \A t \in TasksOf(WG) : sig[t] = 1
    /\ wg[WG] = 0

\* A step of task t: the goroutine starts processOrder or finishes.
TaskStep(t) == tpc[t] \in {"launched", "sleep"} /\ tpc'[t] # tpc[t]

\* C16.  Task isolation: a step of a task changes only that task's own
\* progress and, when the task finishes, the counter of its own WaitGroup,
\* by -1; it leaves the order list, the loop variable, the coordinator, the
\* parameters of all tasks and the progress of every other task as they are.
\* The order list and a parameter, once passed, never change.
C16_TaskIsolation ==
    /\ [][\A t \in Tasks :
            TaskStep(t) =>
                /\ UNCHANGED <<cwake, log, orders, perIter, cpc, i, order, reg, arg,
                               now, startTime, since>>
                /\ tpc' = [tpc EXCEPT ![t] = tpc'[t]]
                /\ seen' = [seen EXCEPT ![t] = seen'[t]]
                /\ sig' = [sig EXCEPT ![t] = sig'[t]]
                /\ sleepFrom' = [sleepFrom EXCEPT ![t] = sleepFrom'[t]]
                /\ wake' = [wake EXCEPT ![t] = wake'[t]]
                /\ \A f \in Funcs \ {t[1]} : wg'[f] = wg[f]
                /\ wg'[t[1]] = IF tpc'[t] = "done" THEN wg[t[1]] - 1 ELSE wg[t[1]]
                /\ sig'[t] = IF tpc'[t] = "done" THEN sig[t] + 1 ELSE sig[t]]_vars
    /\ [][orders' = orders]_vars
    /\ [][\A t \in Tasks : tpc[t] # "none" => arg'[t] = arg[t]]_vars

\* In goroutinesWithWaitGroup the first task has finished and the second is
\* asleep while the coordinator is in the third iteration: the loop variable
\* and the parameters are what the coordinator made them.
C16_Witness ==
    /\ cpc = At(WG, "go")
    /\ i = 3
    /\ tpc[<<WG, 1>>] = "done"
    /\ tpc[<<WG, 2>>] = "sleep"
    /\ order = orders[3]
    /\ arg[<<WG, 1>>] = orders[1] /\ arg[<<WG, 2>>] = orders[2]

\* Tasks of function f that have been launched and have not called wg.Done().
Unsignalled(f) == { t \in TasksOf(f) : tpc[t] # "none" /\ sig[t] = 0 }

\* C18.  Counter accounting: the counter equals the number of wg.Add(1)
\* calls minus the number of wg.Done() calls, the registered tasks are the
\* launched ones and at most one more, and the counter is the number of
\* launched tasks that have not signalled plus the registered task that is
\* not yet launched, so it counts every launched task that has not signalled.
C18_CounterAccounting ==
    \A f \in Funcs :
        /\ wg[f] = reg[f] - Signals(f)
        /\ reg[f] - Launched(f) \in {0, 1}
        /\ wg[f] = Cardinality(Unsignalled(f)) + (reg[f] - Launched(f))
        /\ wg[f] >= Cardinality(Unsignalled(f))

\* goroutineRuntimeInfo has registered three tasks and launched two, one of
\* which has signalled.
C18_Witness ==
    /\ cpc = At(Info, "go")
    /\ reg[Info] = 3
    /\ Launched(Info) = 2
    /\ Signals(Info) = 1
    /\ wg[Info] = 2

RECURSIVE SumPrep(_, _)
\* Sum of the preparation times of the first n orders of a batch.
SumPrep(b, n) == IF n = 0 THEN 0 ELSE b[n].PrepTime + SumPrep(b, n - 1)

\* What processing the batch b in list order, one order after the other,
\* prints from clock value t0 on: order k starts when order k-1 is ready
\* and is ready PrepTime later.
InOrderLog(b, t0) ==
    [j \in 1..(2 * Len(b)) |->
        IF j % 2 = 1
          THEN <<"Started", b[(j + 1) \div 2].ID, t0 + SumPrep(b, (j - 1) \div 2)>>
          ELSE <<"Ready", b[j \div 2].ID, t0 + SumPrep(b, j \div 2)>>]

\* Number of lines of the log that are "Started" / "Ready" lines.
CountLines(line) == Cardinality({ j \in DOMAIN log : log[j][1] = line })

\* C11.  Sequential processing on the logical clock, in main of
\* 01-sequential-synchronous and in sequentialProcessing: what has been
\* printed is always a beginning of the in-order log (orders in list order,
\* each ready before the next starts, each taking its preparation time); at
\* most one order is started and not ready, and it is the loop's current
\* order; no goroutine exists while the orders are processed; and the time
\* the function prints at its end is the sum of the preparation times, 12
\* for the five orders of the source.
C11_SequentialProcessingOrder ==
    \A f \in SeqFuncs :
        /\ Len(log) <= 2 * Len(orders)
        /\ \A j \in 1..Len(log) : log[j] = InOrderLog(orders, startTime[f])[j]
        /\ CountLines("Started") - CountLines("Ready") \in {0, 1}
        /\ cpc.fn = f =>
              /\ \A t \in DOMAIN tpc : tpc[t] = "none"
              /\ CountLines("Started") = i
              /\ CountLines("Ready") = IF cpc.at = "sleep" THEN i - 1 ELSE i
        /\ since[f] # -1 =>
              /\ log = InOrderLog(orders, startTime[f])
              /\ since[f] = SumPrep(orders, Len(orders))
              /\ orders = Orders => since[f] = 12

\* sequentialProcessing has processed the five orders of the source and has
\* printed a total time of 12.
C11_Witness ==
    /\ orders = Orders
    /\ since[Sequential] = 12
    /\ Len(log) = 10
    /\ cpc = At(Simple, "enter")

\* The main goroutine has returned from function f.
Past(f) == FuncRank(cpc.fn) > FuncRank(f)

\* C15.  In simpleGoroutine and multipleGoroutines the main goroutine goes
\* on past its fixed time.Sleep only after every goroutine the function
\* launched has completed.
C15_FixedWaitOutlastsTasks ==
    \A f \in SleepFuncs :
        Past(f) => \A t \in TasksOf(f) : tpc[t] = "done"

\* A step of the main goroutine inside function f.
CoordinatorStep(f) == cpc.fn = f /\ (cpc' # cpc \/ i' # i)

\* C17.  One WaitGroup per batch: main goes through its functions in one
\* direction only; when a barrier based function is entered its WaitGroup
\* is fresh (counter 0, nothing added, none of its goroutines exists) and
\* the goroutines of the barrier based functions before it are all done;
\* the counter of a WaitGroup changes only by a wg.Add(1) of the main
\* goroutine inside its function or by the wg.Done() of one of its own
\* goroutines; and a step of a goroutine of simpleGoroutine or
\* multipleGoroutines, whenever it comes, leaves every WaitGroup as it is.
C17_OneBarrierPerBatch ==
    /\ [][FuncRank(cpc'.fn) >= FuncRank(cpc.fn)]_vars
    /\ [](\A f \in Funcs :
            FuncRank(cpc.fn) < FuncRank(f) \/ cpc = At(f, "enter") =>
                /\ wg[f] = 0 /\ reg[f] = 0
                /\ \A t \in TasksOf(f) : tpc[t] = "none"
                /\ \A g \in Funcs : FuncRank(g) < FuncRank(f) /\ cpc.fn = f =>
                      \A t \in TasksOf(g) : tpc[t] = "done")
    /\ [][\A f \in Funcs :
            /\ wg'[f] # wg[f] =>
                  \/ CoordinatorStep(f) /\ wg'[f] = wg[f] + 1
                       /\ reg'[f] = reg[f] + 1
                  \/ \E t \in TasksOf(f) :
                        TaskStep(t) /\ sig'[t] = sig[t] + 1
                          /\ wg'[f] = wg[f] - 1
            /\ reg'[f] # reg[f] => CoordinatorStep(f)]_vars
    /\ [][\A t \in StrayTasks :
            tpc'[t] # tpc[t] =>
                /\ wg' = wg /\ reg' = reg
                /\ \A u \in Tasks : sig'[u] = sig[u]]_vars

\* A goroutine of multipleGoroutines is still asleep while the main goroutine
\* is in anonymousGoroutines with both of that function's goroutines pending.
C17_Witness ==
    /\ cpc.fn = Anon
    /\ wg[Anon] = 2
    /\ tpc[<<Multiple, 1>>] = "sleep"
    /\ tpc[<<Simple, 1>>] = "done"

====
